---- MODULE Spec2Model ----
(***************************************************************************)
(* Job lifecycle and queue scheduler of the HeyGem API server.             *)
(*                                                                         *)
(* The model follows the service layer (services/video.js,                 *)
(* services/task.js), the video DAO (dao/video.js) and the timer that      *)
(* drives processTaskQueue.  One Node.js process runs everything: a        *)
(* handler runs to its next await without interruption, so every action    *)
(* below is one such run-to-await segment.  Calls that are awaited (TTS,   *)
(* render submit, render poll, duration probe) stay in flight in `runs'    *)
(* until their answer arrives in a later action.                           *)
(***************************************************************************)
EXTENDS Integers, Sequences, FiniteSets, Bags, TLC

(***************************************************************************)
(* Bounds of the model.                                                    *)
(***************************************************************************)
MaxVideos == 2      \* rows inserted into the video table
MaxRuns == 4        \* awaited calls in flight at the same time
MaxTicks == 3       \* firings of the interval timer
MaxCalls == 3       \* calls of the route layer that act on an existing job

(***************************************************************************)
(* Values.                                                                 *)
(***************************************************************************)
NULL == "null"
NoId == 0
ProgressNull == 0 - 1

Statuses == {"draft", "waiting", "processing", "pending", "completed", "failed"}

\* request bodies of saveVideo: id (absent for a new video), model_id,
\* text_content, voice_id, audio_path
SaveRequests ==
  { [id |-> NoId, model_id |-> "m1", text_content |-> "script",
     voice_id |-> "v1", audio_path |-> NULL],
    [id |-> NoId, model_id |-> "m1", text_content |-> "script",
     voice_id |-> "v1", audio_path |-> "upload.wav"] }
  \cup { [id |-> i, model_id |-> "m1", text_content |-> "edited",
          voice_id |-> "v1", audio_path |-> NULL] : i \in 1..MaxVideos }

\* what modelDao.selectByID and voiceDao.selectByID find when a job is
\* started: the tables belong to the model and voice routes, which also
\* delete rows
Lookups == { [model |-> TRUE, voice |-> TRUE],
             [model |-> TRUE, voice |-> FALSE],
             [model |-> FALSE, voice |-> TRUE] }

\* messages written by the code
MsgSubmitting == "Submitting task..."
MsgRetrying == "Retrying task..."
MsgCancelled == "Task cancelled by user"
MsgSubmitted == "Task submitted successfully"
MsgSubmitFailed == "Task submission failed"
MsgDevSubmitted == "Development mode - task submitted"
MsgModelNotFound == "Model not found"
MsgVoiceNotFound == "Voice not found"
MsgVideoNotFound == "Video not found"
MsgTtsError == "TTS service error"
MsgSubmitError == "submit: request failed"
MsgStatusCheckFailed == "Status check failed"
MsgCompletionFailed == "Completion handling failed"

VARIABLES
  video,       \* the video table: id -> row
  now,         \* Date.now(), in timer periods since the server was set up
  calls,       \* calls of the route layer made so far
  nodeEnv,     \* process.env.NODE_ENV
  alive,       \* the server process is running
  immediates,  \* callbacks queued by setImmediate: ids to synthesize, and
               \* NoId for processTaskQueue itself
  runs,        \* bag of awaited calls in flight
  response,    \* the last call of the route layer and whether it threw
  backgroundInterval,  \* background/index.js: the timer id it holds, or NoId
  timers       \* the interval timers that are active

vars == <<video, now, calls, nodeEnv, alive, immediates, runs, response,
          backgroundInterval, timers>>

(***************************************************************************)
(* dao/video.js                                                            *)
(***************************************************************************)
Min(S) == CHOOSE x \in S : \A y \in S : x <= y
Max(S) == CHOOSE x \in S : \A y \in S : y <= x

\* the rowid SQLite gives the next row: one more than the largest in use
nextId(v) == IF DOMAIN v = {} THEN 1 ELSE Max(DOMAIN v) + 1

\* insert: a new row gets the next rowid and created_at = Date.now()
insert(v, fields, t) ==
  LET id == nextId(v)
  IN  [i \in DOMAIN v \cup {id} |->
         IF i = id
           THEN [status |-> fields.status, message |-> NULL,
                 progress |-> ProgressNull, file_path |-> NULL,
                 duration |-> NULL, audio_path |-> fields.audio_path,
                 code |-> NULL, model_id |-> fields.model_id,
                 voice_id |-> fields.voice_id,
                 text_content |-> fields.text_content, created_at |-> t]
           ELSE v[i]]

\* remove: DELETE FROM video WHERE id = ?
remove(v, id) == [i \in DOMAIN v \ {id} |-> v[i]]

\* update without its WHERE clause: every row gets the columns
updateEveryRow(v, fields) ==
  [i \in DOMAIN v |->
     [c \in DOMAIN v[i] |->
        IF c \in DOMAIN fields THEN fields[c] ELSE v[i][c]]]

\* update: UPDATE video SET <the given columns> WHERE id = ?
update(v, fields) ==
  IF fields.id \notin DOMAIN v THEN v
  ELSE [v EXCEPT ![fields.id] =
          [c \in DOMAIN v[fields.id] |->
             IF c \in DOMAIN fields THEN fields[c] ELSE v[fields.id][c]]]

\* updateStatus without its WHERE clause
updateStatusEveryRow(v, id, status, message, progress, file_path) ==
  [i \in DOMAIN v |->
     [v[i] EXCEPT !.status = status, !.message = message,
                  !.progress = progress, !.file_path = file_path]]

\* updateStatus: writes status, message, progress and file_path together
updateStatus(v, id, status, message, progress, file_path) ==
  IF id \notin DOMAIN v THEN v
  ELSE [v EXCEPT ![id].status = status, ![id].message = message,
                 ![id].progress = progress, ![id].file_path = file_path]

selectByStatus(v, status) == {i \in DOMAIN v : v[i].status = status}

\* SELECT ... WHERE status = ? LIMIT 1: the first row in rowid order
findFirstByStatusBroken(v, status) ==
  IF selectByStatus(v, status) = {} THEN NoId
  ELSE Max(selectByStatus(v, status))

findFirstByStatus(v, status) ==
  IF selectByStatus(v, status) = {} THEN NoId
  ELSE Min(selectByStatus(v, status))

(***************************************************************************)
(* Awaited calls.  kind "synthesize" is a run of synthesizeVideo stopped   *)
(* at the TTS call (pc "tts") or at the render submit (pc "submit");       *)
(* kind "tick" is a run of processTaskQueue stopped inside                 *)
(* processPendingVideos at the poll (pc "status") or at the duration       *)
(* probe (pc "probe").  The other fields are the run's local variables.    *)
(***************************************************************************)
Run(kind, pc, id, audio, code, msg, progress, result) ==
  [kind |-> kind, pc |-> pc, id |-> id, audio |-> audio, code |-> code,
   msg |-> msg, progress |-> progress, result |-> result]

NoRun == Run("none", "none", NoId, NULL, NULL, NULL, 0, NULL)

Await(r) == IF r = NoRun THEN EmptyBag ELSE SetToBag({r})

InFlight == BagCardinality(runs)

\* the process state a handler segment works on and leaves behind
State(v, rs, up) == [video |-> v, runs |-> rs, alive |-> up]

\* a rejected promise nobody handles ends the process: what was queued or
\* awaited is gone, the table stays
Crash(v) == State(v, EmptyBag, FALSE)

(***************************************************************************)
(* services/video.js: synthesizeVideo                                      *)
(***************************************************************************)
\* Answers of the remote services
SubmitResults == { [code |-> 10000, msg |-> "accepted"],
                   [code |-> 10001, msg |-> "quota exceeded"],
                   [code |-> 10001, msg |-> ""] }

Or(msg, default) == IF msg = "" THEN default ELSE msg

\* the same with a rejected task leaving no code on the row
CommitSubmitNoCode(st, id, audio, uuid, result) ==
  IF result.code = 10000
    THEN State(update(st.video,
                 [id |-> id, file_path |-> NULL, status |-> "pending",
                  message |-> Or(result.msg, MsgSubmitted),
                  audio_path |-> audio, code |-> uuid]),
               st.runs, st.alive)
    ELSE State(update(st.video,
                 [id |-> id, file_path |-> NULL, status |-> "failed",
                  message |-> Or(result.msg, MsgSubmitFailed),
                  audio_path |-> audio]),
               st.runs, st.alive)

\* lines 199-224: the answer of the render service is written to the row
CommitSubmit(st, id, audio, uuid, result) ==
  IF result.code = 10000
    THEN State(update(st.video,
                 [id |-> id, file_path |-> NULL, status |-> "pending",
                  message |-> Or(result.msg, MsgSubmitted),
                  audio_path |-> audio, code |-> uuid]),
               st.runs, st.alive)
    ELSE State(update(st.video,
                 [id |-> id, file_path |-> NULL, status |-> "failed",
                  message |-> Or(result.msg, MsgSubmitFailed),
                  audio_path |-> audio, code |-> uuid]),
               st.runs, st.alive)

\* lines 227-234: catch, write failed, rethrow; the caller is a setImmediate
\* callback, so the rejection is unhandled
SynthesizeFailed(st, id, message) ==
  Crash(updateStatus(st.video, id, "failed", message, 0, ""))

\* lines 184-195: with the audio at hand the render service is called; in
\* development its answer is made up on the spot
Face2Face(st, id, audio, uuid, env) ==
  IF env = "development"
    THEN CommitSubmit(st, id, audio, uuid,
                      [code |-> 10000, msg |-> MsgDevSubmitted])
    ELSE State(st.video,
               st.runs (+) Await(Run("synthesize", "submit", id, audio, uuid,
                                     NULL, 0, NULL)),
               st.alive)

\* synthesizeVideo that synthesizes audio for a job that has audio already
SynthesizeStartAlwaysTts(st, id, found, uuid, env) ==
  LET v1 == update(st.video, [id |-> id, file_path |-> NULL,
                              status |-> "processing",
                              message |-> MsgSubmitting])
      s1 == State(v1, st.runs, st.alive)
  IN  IF id \notin DOMAIN v1
        THEN SynthesizeFailed(s1, id, MsgVideoNotFound)
      ELSE IF ~found.model
        THEN SynthesizeFailed(s1, id, MsgModelNotFound)
      ELSE IF ~found.voice
        THEN SynthesizeFailed(s1, id, MsgVoiceNotFound)
      ELSE State(v1,
                 st.runs (+) Await(Run("synthesize", "tts", id, NULL, NULL,
                                       NULL, 0, NULL)),
                 st.alive)

\* synthesizeVideo that does not look the model up
SynthesizeStartAnyModel(st, id, found, uuid, env) ==
  LET v1 == update(st.video, [id |-> id, file_path |-> NULL,
                              status |-> "processing",
                              message |-> MsgSubmitting])
      s1 == State(v1, st.runs, st.alive)
  IN  IF id \notin DOMAIN v1
        THEN SynthesizeFailed(s1, id, MsgVideoNotFound)
      ELSE IF v1[id].audio_path # NULL
        THEN Face2Face(s1, id, v1[id].audio_path, uuid, env)
      ELSE IF ~found.voice
        THEN SynthesizeFailed(s1, id, MsgVoiceNotFound)
      ELSE State(v1,
                 st.runs (+) Await(Run("synthesize", "tts", id, NULL, NULL,
                                       NULL, 0, NULL)),
                 st.alive)

\* lines 139-182: from the call to the first await
SynthesizeStart(st, id, found, uuid, env) ==
  LET v1 == update(st.video, [id |-> id, file_path |-> NULL,
                              status |-> "processing",
                              message |-> MsgSubmitting])
      s1 == State(v1, st.runs, st.alive)
  IN  IF id \notin DOMAIN v1
        THEN SynthesizeFailed(s1, id, MsgVideoNotFound)
      ELSE IF ~found.model
        THEN SynthesizeFailed(s1, id, MsgModelNotFound)
      ELSE IF v1[id].audio_path # NULL
        THEN Face2Face(s1, id, v1[id].audio_path, uuid, env)
      ELSE IF ~found.voice
        THEN SynthesizeFailed(s1, id, MsgVoiceNotFound)
      ELSE State(v1,
                 st.runs (+) Await(Run("synthesize", "tts", id, NULL, NULL,
                                       NULL, 0, NULL)),
                 st.alive)

\* the check phase of the event loop runs the queued callbacks one after
\* the other; an unhandled rejection of one ends the process before the next
RECURSIVE RunImmediates(_, _, _, _, _)
RunImmediates(q, st, found, uuid, env) ==
  IF q = <<>> \/ ~st.alive THEN st
  ELSE RunImmediates(Tail(q), SynthesizeStart(st, Head(q), found, uuid, env),
                     found, uuid, env)

(***************************************************************************)
(* Initial state: an empty table, the server started, the timer set.       *)
(***************************************************************************)
Response(op, id, threw) == [op |-> op, id |-> id, threw |-> threw]

Init ==
  /\ video = << >>
  /\ now = 0
  /\ nodeEnv \in {"production", "development"}
  /\ alive = TRUE
  /\ immediates = << >>
  /\ runs = EmptyBag
  /\ calls = 0
  /\ response = Response("none", NoId, FALSE)
  /\ backgroundInterval = 1   \* initializeApp has started the scheduler
  /\ timers = {1}

CallIds == 1..MaxVideos

\* one more call of the route layer
Call ==
  /\ alive
  /\ calls < MaxCalls
  /\ calls' = calls + 1

\* a handler segment ends: its writes, the calls it awaits, the process
Leave(st, queued) ==
  /\ video' = st.video
  /\ runs' = st.runs
  /\ alive' = st.alive
  /\ immediates' = IF st.alive THEN queued ELSE << >>

Here == State(video, runs, alive)

Resume(r) == State(video, runs (-) SetToBag({r}), alive)

(***************************************************************************)
(* Calls of the route layer into the services.                             *)
(***************************************************************************)
\* services/video.js saveVideo: with the id of an existing row the row is
\* updated, otherwise a new draft is inserted (the code inserts also when the
\* request names a row that does not exist; no such request is made here)
SaveVideo(req) ==
  /\ alive
  /\ IF req.id # NoId /\ req.id \in DOMAIN video
       THEN /\ calls < MaxCalls
            /\ calls' = calls + 1
            /\ video' = update(video, [id |-> req.id, model_id |-> req.model_id,
                                       text_content |-> req.text_content,
                                       voice_id |-> req.voice_id,
                                       audio_path |-> req.audio_path])
            /\ response' = Response("save", req.id, FALSE)
       ELSE /\ nextId(video) <= MaxVideos
            /\ req.id = NoId
            /\ calls' = calls
            /\ video' = insert(video, [status |-> "draft",
                                       model_id |-> req.model_id,
                                       text_content |-> req.text_content,
                                       voice_id |-> req.voice_id,
                                       audio_path |-> req.audio_path], now)
            /\ response' = Response("save", NoId, FALSE)
  /\ UNCHANGED <<now, nodeEnv, alive, immediates, runs>>
  /\ UNCHANGED <<backgroundInterval, timers>>

\* startVideoGeneration that hands out a task code with the queue entry
StartVideoGenerationWithCode(id) ==
  /\ Call
  /\ video' = update(video, [id |-> id, status |-> "waiting", code |-> "u1"])
  /\ response' = Response("start", id, FALSE)
  /\ UNCHANGED <<now, nodeEnv, alive, immediates, runs>>
  /\ UNCHANGED <<backgroundInterval, timers>>

\* services/video.js startVideoGeneration
StartVideoGeneration(id) ==
  /\ Call
  /\ video' = update(video, [id |-> id, status |-> "waiting"])
  /\ response' = Response("start", id, FALSE)
  /\ UNCHANGED <<now, nodeEnv, alive, immediates, runs>>
  /\ UNCHANGED <<backgroundInterval, timers>>

\* the route file with the import of dao/video.js in place
VideoDaoImportedAnyway == TRUE

\* routes/videos.js names videoDao, which the file never imports: the first
\* statement of the handler raises ReferenceError and asyncHandler passes it on
VideoDaoImported == FALSE

\* routes/videos.js POST /:id/generate
GenerateRoute(id) ==
  /\ Call
  /\ IF ~VideoDaoImported \/ id \notin DOMAIN video
             \/ video[id].status \in {"processing", "pending"}
       THEN /\ response' = Response("generate", id, TRUE)
            /\ UNCHANGED <<video, immediates>>
       ELSE /\ video' = update(video, [id |-> id, status |-> "waiting",
                                       progress |-> 0])
            /\ immediates' = Append(immediates, id)
            /\ response' = Response("generate", id, FALSE)
  /\ UNCHANGED <<now, nodeEnv, alive, runs>>
  /\ UNCHANGED <<backgroundInterval, timers>>

\* services/video.js deleteVideo, called by the route DELETE /:id
DeleteVideo(id) ==
  /\ Call
  /\ IF id \notin DOMAIN video
       THEN /\ response' = Response("delete", id, TRUE)
            /\ UNCHANGED video
       ELSE /\ video' = remove(video, id)
            /\ response' = Response("delete", id, FALSE)
  /\ UNCHANGED <<now, nodeEnv, alive, immediates, runs>>
  /\ UNCHANGED <<backgroundInterval, timers>>

\* retryFailedTask without its status check
RetryFailedTaskUnguarded(id) ==
  /\ Call
  /\ IF id \notin DOMAIN video
       THEN /\ response' = Response("retry", id, TRUE)
            /\ UNCHANGED video
       ELSE /\ video' = update(video, [id |-> id, status |-> "waiting",
                                       message |-> MsgRetrying, progress |-> 0])
            /\ response' = Response("retry", id, FALSE)
  /\ UNCHANGED <<now, nodeEnv, alive, immediates, runs>>
  /\ UNCHANGED <<backgroundInterval, timers>>

\* retryFailedTask that also drops the audio and the task code
RetryFailedTaskClearing(id) ==
  /\ Call
  /\ IF id \notin DOMAIN video \/ video[id].status # "failed"
       THEN /\ response' = Response("retry", id, TRUE)
            /\ UNCHANGED video
       ELSE /\ video' = update(video, [id |-> id, status |-> "waiting",
                                       message |-> MsgRetrying, progress |-> 0,
                                       audio_path |-> NULL, code |-> NULL])
            /\ response' = Response("retry", id, FALSE)
  /\ UNCHANGED <<now, nodeEnv, alive, immediates, runs>>
  /\ UNCHANGED <<backgroundInterval, timers>>

\* services/task.js retryFailedTask
RetryFailedTask(id) ==
  /\ Call
  /\ IF id \notin DOMAIN video \/ video[id].status # "failed"
       THEN /\ response' = Response("retry", id, TRUE)
            /\ UNCHANGED video
       ELSE /\ video' = update(video, [id |-> id, status |-> "waiting",
                                       message |-> MsgRetrying, progress |-> 0])
            /\ response' = Response("retry", id, FALSE)
  /\ UNCHANGED <<now, nodeEnv, alive, immediates, runs>>
  /\ UNCHANGED <<backgroundInterval, timers>>

\* cancelTask that refuses a job already handed to the render service
CancelTaskNarrow(id) ==
  /\ Call
  /\ IF id \notin DOMAIN video
          \/ video[id].status \notin {"waiting", "processing"}
       THEN /\ response' = Response("cancel", id, TRUE)
            /\ UNCHANGED video
       ELSE /\ video' = update(video, [id |-> id, status |-> "failed",
                                       message |-> MsgCancelled, progress |-> 0])
            /\ response' = Response("cancel", id, FALSE)
  /\ UNCHANGED <<now, nodeEnv, alive, immediates, runs>>
  /\ UNCHANGED <<backgroundInterval, timers>>

\* cancelTask that also takes a job that has already ended
CancelTaskWide(id) ==
  /\ Call
  /\ IF id \notin DOMAIN video \/ video[id].status = "draft"
       THEN /\ response' = Response("cancel", id, TRUE)
            /\ UNCHANGED video
       ELSE /\ video' = update(video, [id |-> id, status |-> "failed",
                                       message |-> MsgCancelled, progress |-> 0])
            /\ response' = Response("cancel", id, FALSE)
  /\ UNCHANGED <<now, nodeEnv, alive, immediates, runs>>
  /\ UNCHANGED <<backgroundInterval, timers>>

\* services/task.js cancelTask
CancelTask(id) ==
  /\ Call
  /\ IF id \notin DOMAIN video
          \/ video[id].status \notin {"waiting", "processing", "pending"}
       THEN /\ response' = Response("cancel", id, TRUE)
            /\ UNCHANGED video
       ELSE /\ video' = update(video, [id |-> id, status |-> "failed",
                                       message |-> MsgCancelled, progress |-> 0])
            /\ response' = Response("cancel", id, FALSE)
  /\ UNCHANGED <<now, nodeEnv, alive, immediates, runs>>
  /\ UNCHANGED <<backgroundInterval, timers>>

(***************************************************************************)
(* Queries: services/task.js getWaitingTasks, services/video.js            *)
(* getVideoPage.                                                           *)
(***************************************************************************)
\* the rows of a SELECT without ORDER BY: in rowid order
RECURSIVE Ascending(_)
Ascending(S) ==
  IF S = {} THEN << >> ELSE << Min(S) >> \o Ascending(S \ {Min(S)})

\* Array.prototype.indexOf, counted from 0; -1 when x is not in q
indexOf(q, x) ==
  IF \E k \in DOMAIN q : q[k] = x
    THEN Min({k \in DOMAIN q : q[k] = x}) - 1
    ELSE 0 - 1

\* getWaitingTasks that lists the newest row first
getWaitingTasksNewestFirst(v) ==
  LET waitingTasks == Ascending(selectByStatus(v, "waiting"))
      n == Len(waitingTasks)
  IN  [k \in DOMAIN waitingTasks |->
         [id |-> waitingTasks[n + 1 - k], queuePosition |-> (k - 1) + 1,
          totalInQueue |-> n]]

\* getWaitingTasks that counts the head of the queue as position 0
getWaitingTasksFromZero(v) ==
  LET waitingTasks == Ascending(selectByStatus(v, "waiting"))
  IN  [k \in DOMAIN waitingTasks |->
         [id |-> waitingTasks[k], queuePosition |-> k - 1,
          totalInQueue |-> Len(waitingTasks)]]

\* getWaitingTasks: the waiting rows, each with index + 1 and the length
getWaitingTasks(v) ==
  LET waitingTasks == Ascending(selectByStatus(v, "waiting"))
  IN  [k \in DOMAIN waitingTasks |->
         [id |-> waitingTasks[k], queuePosition |-> (k - 1) + 1,
          totalInQueue |-> Len(waitingTasks)]]

\* getVideoPage: the position it shows in the progress column of a waiting
\* row, "<position> / <length>"
getVideoPage(v, id) ==
  LET waitingVideos == Ascending(selectByStatus(v, "waiting"))
  IN  [queuePosition |-> indexOf(waitingVideos, id) + 1,
       totalInQueue |-> Len(waitingVideos)]

\* JavaScript values that hold a row id: the number a row read from SQLite
\* carries, and the string Express puts in req.params
JsNumber(n) == [type |-> "number", value |-> n]
JsString(n) == [type |-> "string", value |-> n]

\* a === b: the same type and the same value
StrictEquals(a, b) == a.type = b.type /\ a.value = b.value

\* routes/tasks.js GET /:id: const { id } = req.params
RouteParam(id) == JsString(id)

\* selectByID: SELECT * FROM video WHERE id = ?; SQLite compares an integer
\* column with a text parameter by the number the text spells
selectByID(v, id) == IF id.value \in DOMAIN v THEN id.value ELSE NoId

\* getTaskDetails: the fields of the row and, for a waiting row found in
\* getWaitingTasks by t.id === taskId, its queue position
getTaskDetails(v, taskId) ==
  LET id == selectByID(v, taskId)
      waitingTasks == getWaitingTasks(v)
      queueInfo == {k \in DOMAIN waitingTasks :
                      StrictEquals(JsNumber(waitingTasks[k].id), taskId)}
      withQueue == id # NoId /\ v[id].status = "waiting" /\ queueInfo # {}
  IN  IF id = NoId
        THEN [found |-> FALSE, status |-> NULL, progress |-> ProgressNull,
              message |-> NULL, hasQueuePosition |-> FALSE,
              queuePosition |-> 0, totalInQueue |-> 0]
        ELSE [found |-> TRUE, status |-> v[id].status,
              progress |-> v[id].progress, message |-> v[id].message,
              hasQueuePosition |-> withQueue,
              queuePosition |->
                IF withQueue
                  THEN waitingTasks[CHOOSE k \in queueInfo : TRUE].queuePosition
                  ELSE 0,
              totalInQueue |->
                IF withQueue
                  THEN waitingTasks[CHOOSE k \in queueInfo : TRUE].totalInQueue
                  ELSE 0]

(***************************************************************************)
(* services/task.js processTaskQueue, fired by the interval timer.         *)
(***************************************************************************)
\* services/video.js processNextWaitingVideo: the callback it queues
NextWaiting(v) ==
  IF findFirstByStatus(v, "waiting") = NoId THEN << >>
  ELSE << findFirstByStatus(v, "waiting") >>

\* processTaskQueue that starts the next waiting job after a poll as well
TickPromotesToo ==
  /\ alive
  /\ now < MaxTicks
  /\ now' = now + 1
  /\ immediates = << >>
  /\ IF findFirstByStatus(video, "pending") = NoId
       THEN /\ InFlight + 2 <= MaxRuns
            /\ immediates' = NextWaiting(video) \o NextWaiting(video)
            /\ UNCHANGED runs
       ELSE /\ InFlight < MaxRuns
            /\ LET id == findFirstByStatus(video, "pending")
               IN  runs' = runs (+) Await(Run("tick", "status", id, NULL,
                                              video[id].code, NULL, 0, NULL))
            /\ immediates' = NextWaiting(video)
  /\ UNCHANGED <<video, calls, nodeEnv, alive, response>>
  /\ UNCHANGED <<backgroundInterval, timers>>

\* processTaskQueue up to its first await that leaves the process:
\* with no pending row processPendingVideos calls processNextWaitingVideo and
\* returns null, and processTaskQueue then calls processNextWaitingVideo again;
\* with a pending row the poll of its code is awaited
Tick ==
  /\ alive
  /\ now < MaxTicks
  /\ now' = now + 1
  /\ immediates = << >>
  /\ IF findFirstByStatus(video, "pending") = NoId
       THEN /\ InFlight + 2 <= MaxRuns
            /\ immediates' = NextWaiting(video) \o NextWaiting(video)
            /\ UNCHANGED runs
       ELSE /\ InFlight < MaxRuns
            /\ LET id == findFirstByStatus(video, "pending")
               IN  runs' = runs (+) Await(Run("tick", "status", id, NULL,
                                              video[id].code, NULL, 0, NULL))
            /\ UNCHANGED immediates
  /\ UNCHANGED <<video, calls, nodeEnv, alive, response>>
  /\ UNCHANGED <<backgroundInterval, timers>>

UUIDs == {"u1"}

\* the setImmediate callbacks run: synthesizeVideo for each queued id
CheckPhase ==
  /\ alive
  /\ immediates # << >>
  /\ \E found \in Lookups, uuid \in UUIDs :
       Leave(RunImmediates(immediates, Here, found, uuid, nodeEnv), << >>)
  /\ UNCHANGED <<now, calls, nodeEnv, response>>
  /\ UNCHANGED <<backgroundInterval, timers>>

\* makeAudioForVideo returns the audio file, or throws
TtsReturn(r) ==
  /\ alive
  /\ BagIn(r, runs) /\ r.kind = "synthesize" /\ r.pc = "tts"
  /\ \/ \E uuid \in UUIDs :
          Leave(Face2Face(Resume(r), r.id, "tts.wav", uuid, nodeEnv), immediates)
     \/ Leave(SynthesizeFailed(Resume(r), r.id, MsgTtsError), immediates)
  /\ UNCHANGED <<now, calls, nodeEnv, response>>
  /\ UNCHANGED <<backgroundInterval, timers>>

\* makeVideoApi returns the answer of the render service, or throws
SubmitReturn(r) ==
  /\ alive
  /\ BagIn(r, runs) /\ r.kind = "synthesize" /\ r.pc = "submit"
  /\ \/ \E result \in SubmitResults :
          Leave(CommitSubmit(Resume(r), r.id, r.audio, r.code, result), immediates)
     \/ Leave(SynthesizeFailed(Resume(r), r.id, MsgSubmitError), immediates)
  /\ UNCHANGED <<now, calls, nodeEnv, response>>
  /\ UNCHANGED <<backgroundInterval, timers>>

(***************************************************************************)
(* services/video.js processPendingVideos after the poll, and              *)
(* handleVideoCompletion.                                                  *)
(***************************************************************************)
FailCodes == {9999, 10002, 10003}

\* answers of GET /query: code, and for code 10000 the data of the task; the
\* last answer has code 10000 and no data object (data is FALSE)
StatusResponses ==
  { [code |-> 9999, status |-> 0, msg |-> "remote error", progress |-> 0,
     result |-> NULL, data |-> TRUE],
    [code |-> 10000, status |-> 1, msg |-> "rendering", progress |-> 40,
     result |-> NULL, data |-> TRUE],
    [code |-> 10000, status |-> 1, msg |-> "rendering", progress |-> 80,
     result |-> NULL, data |-> TRUE],
    [code |-> 10000, status |-> 2, msg |-> "done", progress |-> 100,
     result |-> "r1.mp4", data |-> TRUE],
    [code |-> 10000, status |-> 3, msg |-> "remote error", progress |-> 0,
     result |-> NULL, data |-> TRUE],
    [code |-> 10000, status |-> 0, msg |-> "queued", progress |-> 0,
     result |-> NULL, data |-> TRUE],
    [code |-> 10004, status |-> 0, msg |-> "busy", progress |-> 0,
     result |-> NULL, data |-> TRUE],
    [code |-> 10000, status |-> 0, msg |-> "", progress |-> 0,
     result |-> NULL, data |-> FALSE] }

DevDuration == "10"

\* processPendingVideos that drops the progress of a running task
HandleStatusDropsProgress(st, r, resp, env) ==
  IF resp.code = 10000 /\ ~resp.data
    THEN State(updateStatus(st.video, r.id, "failed", MsgStatusCheckFailed,
                            0, ""),
               st.runs, st.alive)
  ELSE IF resp.code = 10000 /\ resp.status = 2 /\ env = "development"
    THEN State(update(st.video, [id |-> r.id, status |-> "completed",
                                 message |-> resp.msg,
                                 progress |-> resp.progress,
                                 file_path |-> resp.result,
                                 duration |-> "10"]),
               st.runs, st.alive)
  ELSE IF resp.code = 10000 /\ resp.status = 2
    THEN State(st.video,
               st.runs (+) Await(Run("tick", "probe", r.id, NULL, r.code,
                                     resp.msg, resp.progress, resp.result)),
               st.alive)
  ELSE IF resp.code = 10000 /\ resp.status = 1
    THEN State(updateStatus(st.video, r.id, "pending", resp.msg, 0, ""),
               st.runs, st.alive)
  ELSE IF resp.code \in {9999, 10002, 10003}
            \/ (resp.code = 10000 /\ resp.status = 3)
    THEN State(updateStatus(st.video, r.id, "failed", resp.msg, 0, ""),
               st.runs, st.alive)
  ELSE st

\* handleVideoCompletion, lines 327-335
CommitCompletion(st, id, msg, progress, result, duration) ==
  State(update(st.video, [id |-> id, status |-> "completed", message |-> msg,
                          progress |-> progress, file_path |-> result,
                          duration |-> duration]),
        st.runs, st.alive)

\* processPendingVideos, lines 277-298
HandleStatus(st, r, resp, env) ==
  IF resp.code \in FailCodes
    THEN State(updateStatus(st.video, r.id, "failed", resp.msg, 0, ""),
               st.runs, st.alive)
  ELSE IF resp.code = 10000 /\ ~resp.data
    THEN State(updateStatus(st.video, r.id, "failed", MsgStatusCheckFailed,
                            0, ""),
               st.runs, st.alive)
  ELSE IF resp.code = 10000 /\ resp.status = 1
    THEN State(updateStatus(st.video, r.id, "pending", resp.msg,
                            resp.progress, ""),
               st.runs, st.alive)
  ELSE IF resp.code = 10000 /\ resp.status = 2
    THEN IF env = "development"
           THEN CommitCompletion(st, r.id, resp.msg, resp.progress,
                                 resp.result, DevDuration)
           ELSE State(st.video,
                      st.runs (+) Await(Run("tick", "probe", r.id, NULL, r.code,
                                            resp.msg, resp.progress,
                                            resp.result)),
                      st.alive)
  ELSE IF resp.code = 10000 /\ resp.status = 3
    THEN State(updateStatus(st.video, r.id, "failed", resp.msg, 0, ""),
               st.runs, st.alive)
  ELSE st

\* getVideoStatus returns, or throws
StatusReturn(r) ==
  /\ alive
  /\ BagIn(r, runs) /\ r.kind = "tick" /\ r.pc = "status"
  /\ \/ \E resp \in StatusResponses :
          Leave(HandleStatus(Resume(r), r, resp, nodeEnv), immediates)
     \/ Leave(State(updateStatus(video, r.id, "failed", MsgStatusCheckFailed,
                                 0, ""),
                    runs (-) SetToBag({r}), alive), immediates)
  /\ UNCHANGED <<now, calls, nodeEnv, response>>
  /\ UNCHANGED <<backgroundInterval, timers>>

\* getVideoDuration returns, or throws
ProbeReturn(r) ==
  /\ alive
  /\ BagIn(r, runs) /\ r.kind = "tick" /\ r.pc = "probe"
  /\ \/ Leave(CommitCompletion(Resume(r), r.id, r.msg, r.progress, r.result,
                               "12.3"), immediates)
     \/ Leave(State(updateStatus(video, r.id, "failed", MsgCompletionFailed,
                                 0, ""),
                    runs (-) SetToBag({r}), alive), immediates)
  /\ UNCHANGED <<now, calls, nodeEnv, response>>
  /\ UNCHANGED <<backgroundInterval, timers>>

\* the process is started again (docker-compose: restart unless-stopped)
Restart ==
  /\ ~alive
  /\ alive' = TRUE
  /\ UNCHANGED <<video, now, calls, nodeEnv, immediates, runs, response>>
  /\ UNCHANGED <<backgroundInterval, timers>>

Next ==
  \/ \E req \in SaveRequests : SaveVideo(req)
  \/ \E id \in CallIds : StartVideoGeneration(id)
  \/ \E id \in CallIds : GenerateRoute(id)
  \/ \E id \in CallIds : RetryFailedTask(id)
  \/ \E id \in CallIds : CancelTask(id)
  \/ \E id \in CallIds : DeleteVideo(id)
  \/ Tick
  \/ CheckPhase
  \/ \E r \in BagToSet(runs) : TtsReturn(r)
  \/ \E r \in BagToSet(runs) : SubmitReturn(r)
  \/ \E r \in BagToSet(runs) : StatusReturn(r)
  \/ \E r \in BagToSet(runs) : ProbeReturn(r)
  \/ Restart

Spec == Init /\ [][Next]_vars

(***************************************************************************)
(* Properties.                                                             *)
(***************************************************************************)
InFlightJobs == {i \in DOMAIN video : video[i].status \in {"processing", "pending"}}

TickRuns == {r \in BagToSet(runs) : r.kind = "tick"}

TicksInProgress == BagCardinality([r \in TickRuns |-> CopiesIn(r, runs)])

\* a step of the scheduler or of a call it awaits: not a call of the route layer
SchedulerStep == calls' = calls

\* a step in which an awaited call of run r returns or throws
Return(r) == TtsReturn(r) \/ SubmitReturn(r) \/ StatusReturn(r) \/ ProbeReturn(r)

Cancelled(v, id) ==
  id \in DOMAIN v /\ v[id].status = "failed" /\ v[id].message = MsgCancelled

\* messages stored when a gateway or probe call throws
GatewayErrors ==
  {MsgTtsError, MsgSubmitError, MsgStatusCheckFailed, MsgCompletionFailed}

\* C1: single-flight: at most one job has status processing or pending.
C1_SingleFlight == Cardinality(InFlightJobs) <= 1

\* C2: FIFO promotion: when a tick picks a waiting job to start, that job has
\* the smallest created_at among the jobs waiting at that moment.
C2_FifoPromotion ==
  [][(immediates = << >> /\ immediates' # << >>) =>
       \A k \in DOMAIN immediates' :
         /\ immediates'[k] \in selectByStatus(video, "waiting")
         /\ \A j \in selectByStatus(video, "waiting") :
              video[immediates'[k]].created_at <= video[j].created_at]_vars

\* a tick has picked the older of two waiting jobs created at different times
C2_Witness ==
  /\ immediates # << >>
  /\ immediates[1] \in selectByStatus(video, "waiting")
  /\ \E j \in selectByStatus(video, "waiting") :
       video[j].created_at > video[immediates[1]].created_at

\* C3: no overlapping ticks: at most one run of processTaskQueue is in
\* progress at any time.
C3_NoOverlappingTicks == TicksInProgress <= 1

\* C4: terminal-state closure: no scheduler step changes any field of a job
\* whose status is completed.
C4_CompletedIsClosed ==
  [][\A i \in DOMAIN video :
       (video[i].status = "completed" /\ SchedulerStep) => video'[i] = video[i]]_vars

\* C5: a job cancelled while its TTS, submit, poll or probe call is in
\* progress is still failed with the cancellation message when that call
\* has returned.
C5_CancelSurvivesReturn ==
  [][\A r \in BagToSet(runs) :
       (Return(r) /\ Cancelled(video, r.id)) => Cancelled(video', r.id)]_vars

\* C6: a step that stores a gateway or probe error on a job leaves the job
\* failed and the server process, hence the scheduler, running.
C6_ErrorsKeepScheduler ==
  [][\A i \in DOMAIN video \cap DOMAIN video' :
       (video'[i] # video[i] /\ video'[i].message \in GatewayErrors)
         => (video'[i].status = "failed" /\ alive')]_vars

\* C7: no automatic retry: no scheduler step moves a job out of failed.
C7_NoAutomaticRetry ==
  [][\A i \in DOMAIN video :
       (video[i].status = "failed" /\ SchedulerStep)
         => video'[i].status = "failed"]_vars

\* a step that is the call op(id) of the route layer
Called(op, id) == calls' # calls /\ response'.op = op /\ response'.id = id

\* the audio of the job came with the request, not from TTS
AudioSupplied(row) == row.audio_path = "upload.wav"

C9_RetryRejected ==
  [][\A id \in CallIds :
       (Called("retry", id)
          /\ (id \notin DOMAIN video \/ video[id].status # "failed"))
         => (response'.threw /\ video' = video)]_vars

\* a retry of a pending job has been refused
C9_Witness ==
  \E id \in DOMAIN video :
    /\ response = Response("retry", id, TRUE)
    /\ video[id].status = "pending"

\* C10: cancelling a waiting, processing or pending job succeeds and leaves
\* the job failed with the cancellation message.
C10_CancelSucceeds ==
  [][\A id \in DOMAIN video :
       (Called("cancel", id)
          /\ video[id].status \in {"waiting", "processing", "pending"})
         => (~response'.threw /\ Cancelled(video', id))]_vars

\* a pending job has been cancelled while its poll is in flight
C10_Witness ==
  \E id \in DOMAIN video :
    /\ response = Response("cancel", id, FALSE)
    /\ Cancelled(video, id)
    /\ \E r \in TickRuns : r.id = id /\ r.pc = "status"

\* C11: cancelling a job that is completed, failed or draft, or an id that
\* does not exist, throws to the caller and leaves the table unchanged.
C11_CancelRejected ==
  [][\A id \in CallIds :
       (Called("cancel", id)
          /\ (id \notin DOMAIN video
                \/ video[id].status \in {"completed", "failed", "draft"}))
         => (response'.threw /\ video' = video)]_vars

\* a cancel of a completed job has been refused
C11_Witness ==
  \E id \in DOMAIN video :
    /\ response = Response("cancel", id, TRUE)
    /\ video[id].status = "completed"
    /\ video[id].file_path = "r1.mp4"

\* a step that is a call of an enqueue operation on job id: the service
\* function startVideoGeneration or the route POST /:id/generate
Enqueued(id) == Called("start", id) \/ Called("generate", id)

\* C12: enqueue guard: an enqueue of a job that is waiting, processing,
\* pending or completed throws and leaves the table unchanged.
C12_EnqueueGuard ==
  [][\A id \in DOMAIN video :
       (Enqueued(id)
          /\ video[id].status \in {"waiting", "processing", "pending", "completed"})
         => (response'.threw /\ video' = video)]_vars

HasResult(row) == row.file_path \notin {NULL, ""}

\* C14: a job has a result file and a duration if and only if it is
\* completed; in every other status it has neither.
C14_ResultIffCompleted ==
  \A i \in DOMAIN video :
    IF video[i].status = "completed"
      THEN HasResult(video[i]) /\ video[i].duration # NULL
      ELSE ~HasResult(video[i]) /\ video[i].duration = NULL

\* a step in which the render service answers the submit of run r with result
SubmitAnswered(r, result) ==
  /\ r.kind = "synthesize" /\ r.pc = "submit"
  /\ Leave(CommitSubmit(Resume(r), r.id, r.audio, r.code, result), immediates)
  /\ UNCHANGED <<now, calls, nodeEnv, response>>

\* C15 as stated: when the render service rejects a submit, the job ends
\* failed, its message is the message of the service, and no task code is
\* stored on it.
C15_SubmitRejected ==
  [][\A r \in BagToSet(runs), result \in SubmitResults :
       (result.code # 10000 /\ r.id \in DOMAIN video /\ SubmitAnswered(r, result))
         => /\ video'[r.id].status = "failed"
            /\ video'[r.id].message = result.msg
            /\ video'[r.id].code = NULL]_vars

\* C15 amended: when the render service rejects a submit, the job ends
\* failed, its message is the message of the service, or the default
\* "Task submission failed" when the service sent none, and the task code
\* sent with the submit and the audio path are stored on it.
C15_SubmitRejectedKeepsCode ==
  [][\A r \in BagToSet(runs), result \in SubmitResults :
       (result.code # 10000 /\ r.id \in DOMAIN video /\ SubmitAnswered(r, result))
         => /\ video'[r.id].status = "failed"
            /\ video'[r.id].message = Or(result.msg, MsgSubmitFailed)
            /\ video'[r.id].code = r.code /\ r.code # NULL
            /\ video'[r.id].audio_path = r.audio
            /\ video'[r.id].file_path = NULL]_vars

\* a job has been rejected by the render service with "quota exceeded"
C15_Witness ==
  \E id \in DOMAIN video :
    /\ video[id].status = "failed"
    /\ video[id].message = "quota exceeded"
    /\ video[id].code \in UUIDs
    /\ \A r \in BagToSet(runs) : r.id # id

\* steps in which a remote call of run r succeeds: TTS returns the audio, the
\* render service answers a poll with resp, the probe returns the duration
TtsAnswered(r) ==
  /\ r.kind = "synthesize" /\ r.pc = "tts"
  /\ \E uuid \in UUIDs :
       Leave(Face2Face(Resume(r), r.id, "tts.wav", uuid, nodeEnv), immediates)
  /\ UNCHANGED <<now, calls, nodeEnv, response>>

StatusAnswered(r, resp) ==
  /\ r.kind = "tick" /\ r.pc = "status"
  /\ Leave(HandleStatus(Resume(r), r, resp, nodeEnv), immediates)
  /\ UNCHANGED <<now, calls, nodeEnv, response>>

ProbeAnswered(r) ==
  /\ r.kind = "tick" /\ r.pc = "probe"
  /\ Leave(CommitCompletion(Resume(r), r.id, r.msg, r.progress, r.result,
                            "12.3"), immediates)
  /\ UNCHANGED <<now, calls, nodeEnv, response>>

Accepted == [code |-> 10000, msg |-> "accepted"]

\* the poll answers that report a task still running, or done
Running(resp) == resp.code = 10000 /\ resp.status = 1
Succeeded(resp) == resp.code = 10000 /\ resp.status = 2

\* a step in which some remote call succeeds
SuccessStep ==
  \E r \in BagToSet(runs) :
    \/ TtsAnswered(r)
    \/ SubmitAnswered(r, Accepted)
    \/ \E resp \in StatusResponses :
         (Running(resp) \/ Succeeded(resp)) /\ StatusAnswered(r, resp)
    \/ ProbeAnswered(r)

\* job id is the only job, the only call of the route layer so far is its
\* enqueue, and the render service is the real one
HappyJob(id) ==
  DOMAIN video = {id} /\ calls = 1 /\ calls' = calls /\ nodeEnv = "production"

\* C16: happy path of the only job, enqueued once, when every remote call
\* succeeds: the callback of the tick makes it processing; an accepted
\* submit makes it pending with the code of that submit; a poll reporting
\* running with progress p leaves it pending with progress p; the probe makes
\* it completed with the result of the poll and the duration of the probe;
\* and once completed so, it stays as it is.
C16_HappyPath ==
  [][\A id \in DOMAIN video :
       HappyJob(id) =>
         /\ (video[id].status = "waiting" /\ immediates # << >>
               /\ immediates' = << >> /\ alive')
              => video'[id].status = "processing"
         /\ \A r \in BagToSet(runs) :
              /\ SubmitAnswered(r, Accepted)
                   => video'[id].status = "pending" /\ video'[id].code = r.code
              /\ \A resp \in StatusResponses :
                   (Running(resp) /\ StatusAnswered(r, resp))
                     => /\ video'[id].status = "pending"
                        /\ video'[id].progress = resp.progress
                        /\ video'[id].code = r.code
              /\ ProbeAnswered(r)
                   => /\ video'[id].status = "completed"
                      /\ video'[id].file_path = r.result
                      /\ video'[id].duration = "12.3"
         /\ (video[id].status = "completed" /\ video[id].audio_path = "tts.wav"
               /\ SuccessStep)
              => video'[id] = video[id]]_vars

\* C17: the tick that promotes a waiting job runs the whole pipeline of the
\* job: when that run of processTaskQueue ends, the job it picked is pending
\* or failed, not waiting or processing.
C17_TickRunsPipeline ==
  [][(now' # now /\ immediates' # << >>) =>
       \A k \in DOMAIN immediates' :
         video'[immediates'[k]].status \in {"pending", "failed"}]_vars

\* the entry of job id in the list getWaitingTasks returns
QueueInfo(v, id) ==
  LET q == getWaitingTasks(v)
  IN  q[CHOOSE k \in DOMAIN q : q[k].id = id]

EarlierWaiting(v, id) ==
  {i \in selectByStatus(v, "waiting") : v[i].created_at < v[id].created_at}

\* C18 as stated: the queue position reported for a waiting job is 1 plus
\* the number of waiting jobs with an earlier created_at.
C18_QueuePosition ==
  \A id \in selectByStatus(video, "waiting") :
    /\ QueueInfo(video, id).queuePosition
         = 1 + Cardinality(EarlierWaiting(video, id))
    /\ getVideoPage(video, id).queuePosition
         = 1 + Cardinality(EarlierWaiting(video, id))

InsertedBeforeWaiting(v, id) == {i \in selectByStatus(v, "waiting") : i < id}

\* C18 amended: the queue position reported for a waiting job is 1 plus the
\* number of waiting jobs inserted before it, none of which has a later
\* created_at; the positions of the n waiting jobs are exactly 1..n, and n is
\* reported with each.
C18_QueuePositionByInsertion ==
  /\ \A id \in selectByStatus(video, "waiting") :
       /\ QueueInfo(video, id).queuePosition
            = 1 + Cardinality(InsertedBeforeWaiting(video, id))
       /\ getVideoPage(video, id).queuePosition
            = QueueInfo(video, id).queuePosition
       /\ QueueInfo(video, id).totalInQueue
            = Cardinality(selectByStatus(video, "waiting"))
       /\ getVideoPage(video, id).totalInQueue
            = Cardinality(selectByStatus(video, "waiting"))
       /\ \A i \in InsertedBeforeWaiting(video, id) :
            video[i].created_at <= video[id].created_at
  /\ {QueueInfo(video, id).queuePosition : id \in selectByStatus(video, "waiting")}
       = 1..Cardinality(selectByStatus(video, "waiting"))

\* two jobs created in the same instant are both waiting
C18_Witness ==
  \E i, j \in selectByStatus(video, "waiting") :
    /\ i < j
    /\ video[i].created_at = video[j].created_at
    /\ QueueInfo(video, j).queuePosition = 2

\* C19: when the job the scheduler would promote next leaves the waiting
\* queue (promoted, cancelled or deleted) and the other waiting jobs stay,
\* that job had position 1 and the position of every remaining waiting job
\* goes down by exactly 1.
C19_QueueAdvances ==
  [][LET W == selectByStatus(video, "waiting")
         h == findFirstByStatus(video, "waiting")
     IN  (W # {} /\ selectByStatus(video', "waiting") = W \ {h}) =>
           /\ QueueInfo(video, h).queuePosition = 1
           /\ \A j \in W \ {h} :
                QueueInfo(video', j).queuePosition
                  = QueueInfo(video, j).queuePosition - 1]_vars

\* job 1, enqueued by the last call, has been promoted while job 2 waits
C19_Witness ==
  /\ DOMAIN video = {1, 2}
  /\ response = Response("start", 1, FALSE)
  /\ video[1].status = "processing"
  /\ video[2].status = "waiting"
  /\ QueueInfo(video, 2).queuePosition = 1

\* C20: the status query of the route GET /tasks/:id returns, for a waiting
\* job, its queue position and the number of waiting jobs, and for a job in
\* any other status no queue position.
C20_StatusQuery ==
  \A id \in DOMAIN video :
    LET details == getTaskDetails(video, RouteParam(id))
    IN  /\ details.found
        /\ details.status = video[id].status
        /\ IF video[id].status = "waiting"
             THEN /\ details.hasQueuePosition
                  /\ details.queuePosition = QueueInfo(video, id).queuePosition
                  /\ details.totalInQueue
                       = Cardinality(selectByStatus(video, "waiting"))
             ELSE ~details.hasQueuePosition

\* the status changes the lifecycle allows
AllowedChanges ==
  { <<"draft", "waiting">>, <<"failed", "waiting">>,
    <<"waiting", "processing">>, <<"processing", "pending">>,
    <<"processing", "failed">>, <<"pending", "completed">>,
    <<"pending", "failed">>, <<"waiting", "failed">> }

\* a step in which the queued callbacks run: synthesizeVideo writes
\* processing and, before its first await, possibly pending or failed
CallbacksRan == immediates # << >> /\ immediates' = << >> /\ calls' = calls

\* C21: every change of the status of a job is one of the allowed changes
\* (a waiting job whose callback runs may pass through processing to
\* pending or failed within the step).
C21_AllowedChanges ==
  [][\A i \in DOMAIN video \cap DOMAIN video' :
       video'[i].status # video[i].status =>
         \/ <<video[i].status, video'[i].status>> \in AllowedChanges
         \/ /\ CallbacksRan
            /\ video[i].status = "waiting"
            /\ video'[i].status \in {"pending", "failed"}]_vars

\* C22: while a job stays processing or pending its progress does not
\* decrease from one state to the next.
C22_ProgressMonotonic ==
  [][\A i \in DOMAIN video \cap DOMAIN video' :
       (video[i].status \in {"processing", "pending"}
          /\ video'[i].status \in {"processing", "pending"})
         => video'[i].progress >= video[i].progress]_vars

\* C23: every step that moves a job into waiting leaves its progress 0
\* (stated for jobs that have had a progress written: what a new row holds
\* is the default of the column).
C23_WaitingResetsProgress ==
  [][\A i \in DOMAIN video \cap DOMAIN video' :
       (video[i].status # "waiting" /\ video'[i].status = "waiting"
          /\ video[i].progress # ProgressNull)
         => video'[i].progress = 0]_vars

\* C24: once a job has left draft no step changes its text_content.
C24_ScriptTextImmutable ==
  [][\A i \in DOMAIN video \cap DOMAIN video' :
       video[i].status # "draft"
         => video'[i].text_content = video[i].text_content]_vars

\* a step in which a run of processTaskQueue queues a callback for a
\* waiting job
Promoted == now' # now /\ immediates' # << >>

\* C25: promotion guard: a tick queues the start of a waiting job only in a
\* state where no job is processing or pending.
C25_PromotionGuard == [][Promoted => InFlightJobs = {}]_vars

\* C26: a tick starts the pipeline of the job it picks once: it queues at
\* most one synthesizeVideo callback.
C26_OnePipelinePerTick == [][now' # now => Len(immediates') <= 1]_vars

\* C27: poll precedence: a tick that finds a pending job polls the first
\* pending job and queues no start of a waiting job, and neither does the
\* rest of that run of processTaskQueue, whatever the poll or the probe
\* returns or throws.
C27_PollPrecedence ==
  [][/\ (now' # now /\ findFirstByStatus(video, "pending") # NoId) =>
          /\ immediates' = << >>
          /\ \E r \in BagToSet(runs') :
               /\ r.kind = "tick" /\ r.pc = "status"
               /\ r.id = findFirstByStatus(video, "pending")
               /\ CopiesIn(r, runs') = CopiesIn(r, runs) + 1
     /\ \A r \in TickRuns : Return(r) => immediates' = immediates]_vars

\* a poll is in flight for a pending job while another job waits unpromoted
C27_Witness ==
  \E i, j \in DOMAIN video :
    /\ video[i].status = "pending" /\ video[j].status = "waiting"
    /\ immediates = << >>
    /\ \E r \in TickRuns : r.id = i /\ r.pc = "status"
    /\ \A r \in BagToSet(runs) : r.id # j

\* jobs left processing with no callback queued and no call awaited for them
Orphans ==
  {i \in DOMAIN video :
     /\ video[i].status = "processing"
     /\ \A r \in BagToSet(runs) : r.id # i
     /\ \A k \in DOMAIN immediates : immediates[k] # i}

\* C28: when no job is pending and some job is processing with no pipeline
\* running for it, the next tick takes up such a job instead of promoting a
\* waiting one.
C28_ResumesProcessing ==
  [][(now' # now /\ findFirstByStatus(video, "pending") = NoId
        /\ Orphans # {})
       => /\ immediates' # << >>
          /\ \A k \in DOMAIN immediates' : immediates'[k] \in Orphans]_vars

\* the poll answers that report a terminal error of the remote task
Terminal(resp) ==
  resp.code \in FailCodes \/ (resp.code = 10000 /\ resp.status = 3)

\* C29: the outcome of a poll of a job that is still pending is fixed by the
\* answer (one that carries its data object): running leaves it pending with the reported progress and
\* message; a terminal error makes it failed with the message of the
\* answer; success makes it completed with the result of the answer once
\* the duration is known (at once in development, when the probe returns
\* otherwise); any other answer leaves the job as it is.
C29_PollOutcomes ==
  [][\A r \in TickRuns :
       (r.id \in DOMAIN video /\ video[r.id].status = "pending") =>
         /\ \A resp \in StatusResponses :
              (resp.data /\ StatusAnswered(r, resp)) =>
                IF Running(resp)
                  THEN /\ video'[r.id].status = "pending"
                       /\ video'[r.id].progress = resp.progress
                       /\ video'[r.id].message = resp.msg
                ELSE IF Terminal(resp)
                  THEN /\ video'[r.id].status = "failed"
                       /\ video'[r.id].message = resp.msg
                ELSE IF Succeeded(resp) /\ nodeEnv = "development"
                  THEN /\ video'[r.id].status = "completed"
                       /\ video'[r.id].file_path = resp.result
                       /\ video'[r.id].duration = DevDuration
                ELSE video' = video
         /\ ProbeAnswered(r) =>
              /\ video'[r.id].status = "completed"
              /\ video'[r.id].file_path = r.result
              /\ video'[r.id].duration = "12.3"
              /\ video'[r.id].message = r.msg
              /\ video'[r.id].progress = r.progress]_vars

\* a poll has reported a running task at 40 percent
C29_Witness ==
  \E i \in DOMAIN video :
    /\ video[i].status = "pending"
    /\ video[i].progress = 40
    /\ video[i].message = "rendering"

\* a step in which the duration probe of run r throws
ProbeFailed(r) ==
  /\ r.kind = "tick" /\ r.pc = "probe"
  /\ Leave(State(updateStatus(video, r.id, "failed", MsgCompletionFailed,
                              0, ""),
                 runs (-) SetToBag({r}), alive), immediates)
  /\ UNCHANGED <<now, calls, nodeEnv, response>>

\* C30: when the remote task succeeded and the duration probe fails, the
\* job is failed with a message that says so, and has no result file and
\* no duration.
C30_ProbeFailure ==
  [][\A r \in TickRuns :
       (ProbeFailed(r) /\ r.id \in DOMAIN video) =>
         /\ video'[r.id].status = "failed"
         /\ video'[r.id].message = MsgCompletionFailed
         /\ ~HasResult(video'[r.id])
         /\ video'[r.id].duration = NULL]_vars

\* a step in which the queued callbacks run and the lookups of the model and
\* the voice give found
CallbacksRanWith(found) ==
  /\ alive
  /\ immediates # << >>
  /\ \E uuid \in UUIDs :
       Leave(RunImmediates(immediates, Here, found, uuid, nodeEnv), << >>)
  /\ UNCHANGED <<now, calls, nodeEnv, response>>

NotFoundMessages == {MsgModelNotFound, MsgVoiceNotFound}

\* no TTS call and no submit is awaited for job id
NoCallFor(rs, id) == \A r \in BagToSet(rs) : r.id # id

TtsRun(id) == Run("synthesize", "tts", id, NULL, NULL, NULL, 0, NULL)

\* this step calls the TTS service for job id
TtsCalled(id) == CopiesIn(TtsRun(id), runs') > CopiesIn(TtsRun(id), runs)

\* this step receives an answer of the TTS service for job id
TtsDone(id) == CopiesIn(TtsRun(id), runs') < CopiesIn(TtsRun(id), runs)

\* the submits to the render service this step starts
SubmitsStarted ==
  {r \in BagToSet(runs') :
     r.pc = "submit" /\ CopiesIn(r, runs') > CopiesIn(r, runs)}

\* this step is the TTS call of r throwing
TtsThrew(r) ==
  /\ alive
  /\ BagIn(r, runs) /\ r.kind = "synthesize" /\ r.pc = "tts"
  /\ Leave(SynthesizeFailed(Resume(r), r.id, MsgTtsError), immediates)
  /\ UNCHANGED <<now, calls, nodeEnv, response>>

\* C32: a promoted job whose model and voice resolve has the TTS service
\* called exactly when it has no audio; a submit to the render service is
\* only started with audio at hand, the job's own or the one TTS has just
\* returned; when the TTS call fails the job becomes failed and no submit
\* is made.
C32_TtsIffNoAudio ==
  [][/\ (CallbacksRanWith([model |-> TRUE, voice |-> TRUE])
           /\ immediates[1] \in DOMAIN video) =>
          (TtsCalled(immediates[1])
             <=> video[immediates[1]].audio_path = NULL)
     /\ \A i \in 1..MaxVideos :
          TtsCalled(i) => i \in DOMAIN video /\ video[i].audio_path = NULL
     /\ \A r \in SubmitsStarted :
          /\ r.audio # NULL
          /\ \/ r.id \in DOMAIN video /\ r.audio = video[r.id].audio_path
             \/ TtsDone(r.id)
     /\ \A r \in BagToSet(runs) :
          TtsThrew(r) =>
            /\ r.id \in DOMAIN video' => video'[r.id].status = "failed"
            /\ SubmitsStarted = {}
            /\ \A i \in DOMAIN video \cap DOMAIN video' :
                 video'[i].status = "pending" => video[i].status = "pending"
    ]_vars

\* the TTS call of a promoted job without audio has failed
C32_Witness ==
  \E i \in DOMAIN video :
    /\ video[i].status = "failed"
    /\ video[i].message = MsgTtsError
    /\ video[i].audio_path = NULL
    /\ NoCallFor(runs, i)

\* the messages a rejected submission leaves on a job
RejectedMessages ==
  {Or(result.msg, MsgSubmitFailed) : result \in {x \in SubmitResults : x.code # 10000}}

\* the task code on the row is the one of a submission the render service
\* has rejected
RejectedHandle(row) ==
  row.status = "failed" /\ row.message \in RejectedMessages /\ row.code # NULL

\* this step receives the answer to a poll of job id
PollAnswered(id) ==
  \E r \in TickRuns : r.id = id /\ CopiesIn(r, runs') < CopiesIn(r, runs)

\* C33: a job is pending only with the task code of a submission the render
\* service accepted for it: a job that a submission makes pending has a task
\* code, no poll answer makes pending a job whose task code is that of a
\* rejected submission, and every poll is made with the task code stored on
\* the job at that moment.
C33_PendingHasAcceptedHandle ==
  [][/\ \A i \in DOMAIN video \cap DOMAIN video' :
          (video'[i].status = "pending" /\ video[i].status # "pending") =>
            IF PollAnswered(i)
              THEN ~RejectedHandle(video[i])
              ELSE video'[i].code # NULL
     /\ \A r \in TickRuns' :
          (r.pc = "status" /\ CopiesIn(r, runs') > CopiesIn(r, runs)) =>
            /\ r.id \in DOMAIN video
            /\ video[r.id].status = "pending"
            /\ r.code = video[r.id].code
            /\ r.code # NULL]_vars

\* this step runs synthesizeVideo for job id: from the queued callback, or
\* on from one of its awaits
SynthesizeStepped(id) ==
  \/ /\ CallbacksRan
     /\ \E k \in DOMAIN immediates : immediates[k] = id
  \/ \E r \in BagToSet(runs) :
       /\ r.kind = "synthesize" /\ r.id = id
       /\ CopiesIn(r, runs') < CopiesIn(r, runs)

\* C34: a job has a task code only after it has been processing: a draft
\* has none, and a job without one gets one only in a step of
\* synthesizeVideo for that job, which has made it processing first and
\* leaves it pending or failed.
C34_HandleOnlyAfterProcessing ==
  [][\A i \in DOMAIN video' :
       /\ video'[i].status = "draft" => video'[i].code = NULL
       /\ (video'[i].code # NULL
             /\ (i \in DOMAIN video => video[i].code = NULL)) =>
            /\ i \in DOMAIN video
            /\ SynthesizeStepped(i)
            /\ video'[i].status \in {"pending", "failed"}]_vars

\* one job was cancelled while waiting and has no task code, another has
\* been submitted and has one
C34_Witness ==
  \E i, j \in DOMAIN video :
    /\ video[i].status = "failed"
    /\ video[i].message = MsgCancelled
    /\ video[i].code = NULL
    /\ video[j].code # NULL

\* the write of cancelTask on job id
CancelWrite(id) ==
  [id |-> id, status |-> "failed", message |-> MsgCancelled, progress |-> 0]

\* the writes of the scheduler on job id: promotion, accepted submission,
\* completion
SchedulerWrites(id) ==
  { [id |-> id, file_path |-> NULL, status |-> "processing",
     message |-> MsgSubmitting],
    [id |-> id, status |-> "pending", message |-> MsgSubmitted,
     audio_path |-> "tts.wav", code |-> "u1"],
    [id |-> id, status |-> "completed", message |-> "done", progress |-> 100,
     file_path |-> "r1.mp4", duration |-> DevDuration] }

\* partial records, for ids with and without a row
Partials ==
  UNION {SchedulerWrites(id) \cup {CancelWrite(id), [id |-> id, status |-> "waiting"]} :
           id \in 1..MaxVideos}

\* v2 differs from v in exactly the columns named by p, on the row p.id only
ExactlyNamed(v, v2, p) ==
  /\ DOMAIN v2 = DOMAIN v
  /\ \A i \in DOMAIN v :
       \A c \in DOMAIN v[i] :
         v2[i][c] = IF i = p.id /\ c \in DOMAIN p THEN p[c] ELSE v[i][c]

\* after the writes p then q on one job, every column q names holds q's
\* value and every other column p names holds p's
LaterWins(v, p, q) ==
  LET v2 == update(update(v, p), q)
  IN  \A c \in DOMAIN v2[p.id] :
        v2[p.id][c] = IF c \in DOMAIN q THEN q[c]
                      ELSE IF c \in DOMAIN p THEN p[c]
                      ELSE v[p.id][c]

\* The writes of dao/video.js on their own: the tables saveVideo builds, and
\* from there any sequence of update and updateStatus calls.
Drafts ==
  {[status |-> "draft", model_id |-> r.model_id,
    text_content |-> r.text_content, voice_id |-> r.voice_id,
    audio_path |-> r.audio_path] : r \in {x \in SaveRequests : x.id = NoId}}

InitUpdate ==
  /\ video \in {<< >>}
               \cup {insert(<< >>, a, 0) : a \in Drafts}
               \cup {insert(insert(<< >>, a, 0), b, 1) : a, b \in Drafts}
  /\ now = 0
  /\ calls = 0
  /\ nodeEnv = "production"
  /\ alive = TRUE
  /\ immediates = << >>
  /\ runs = EmptyBag
  /\ response = Response("none", NoId, FALSE)
  /\ backgroundInterval = NoId
  /\ timers = {}

DaoUpdate ==
  /\ \E p \in Partials : video' = update(video, p)
  /\ UNCHANGED <<now, calls, nodeEnv, alive, immediates, runs, response>>
  /\ UNCHANGED <<backgroundInterval, timers>>

DaoUpdateStatus ==
  /\ \E id \in 1..MaxVideos, resp \in StatusResponses :
       video' = updateStatus(video, id,
                             IF Terminal(resp) THEN "failed" ELSE "pending",
                             resp.msg, resp.progress, "")
  /\ UNCHANGED <<now, calls, nodeEnv, alive, immediates, runs, response>>
  /\ UNCHANGED <<backgroundInterval, timers>>

NextUpdate == DaoUpdate \/ DaoUpdateStatus

SpecUpdate == InitUpdate /\ [][NextUpdate]_vars

SavedOrDeleted ==
  \/ \E req \in SaveRequests : SaveVideo(req)
  \/ \E id \in CallIds : DeleteVideo(id)

\* the job this step acts on: the one named by the cancel, retry or enqueue
\* call, the one whose synthesizeVideo callback runs, the one whose awaited
\* call returns
ActedOn(i) ==
  \/ Called("cancel", i) \/ Called("retry", i) \/ Enqueued(i)
  \/ CallbacksRan /\ \E k \in DOMAIN immediates : immediates[k] = i
  \/ \E r \in BagToSet(runs) :
       /\ r.id = i
       /\ CopiesIn(r, runs') < CopiesIn(r, runs)
       /\ alive' \/ Return(r)

\* C36: a step of the scheduler, of a call it awaits, or of cancel, retry or
\* enqueue neither creates nor removes a job, leaves created_at, model_id
\* and voice_id of every job as they are, and changes no field of any job
\* other than the one it acts on.
C36_IdentityFrame ==
  [][\/ /\ DOMAIN video' = DOMAIN video
        /\ \A i \in DOMAIN video :
             /\ video'[i].created_at = video[i].created_at
             /\ video'[i].model_id = video[i].model_id
             /\ video'[i].voice_id = video[i].voice_id
             /\ video'[i] # video[i] => ActedOn(i)
     \/ SavedOrDeleted]_vars

\* a cancel has acted on one job while another one is with the render
\* service, both created at different times
C36_Witness ==
  /\ response.op = "cancel" /\ ~response.threw
  /\ Cancelled(video, response.id)
  /\ \E j \in DOMAIN video :
       /\ j # response.id
       /\ video[j].status = "pending"
       /\ video[j].created_at # video[response.id].created_at

\* a poll answer the code has no branch for: not a failure code, and not
\* code 10000 with a data.status of 1, 2 or 3
Unrecognised(resp) ==
  /\ resp.code \notin FailCodes
  /\ ~(resp.code = 10000 /\ resp.data /\ resp.status \in {1, 2, 3})

\* C38: a poll answer that is neither a failure code nor code 10000 with
\* data.status 1, 2 or 3 leaves every field of every job as it was, queues
\* no callback and starts no call: the polled job stays pending and no
\* waiting job is promoted.
C38_UnrecognisedAnswerIsNoOp ==
  [][\A r \in TickRuns, resp \in StatusResponses :
       (Unrecognised(resp) /\ StatusAnswered(r, resp)) =>
         /\ video' = video
         /\ immediates' = immediates
         /\ runs' = runs (-) SetToBag({r})]_vars

(***************************************************************************)
(* background/index.js and services/task.js startBackgroundProcessing,     *)
(* stopBackgroundProcessing: the module that owns the scheduler's timer,   *)
(* on its own, from the moment it is loaded.  The table is empty, so a     *)
(* tick finds nothing to poll or promote.                                  *)
(***************************************************************************)
InitBackground ==
  /\ video = << >>
  /\ now = 0
  /\ calls = 0
  /\ nodeEnv \in {"production", "development"}
  /\ alive = TRUE
  /\ immediates = << >>
  /\ runs = EmptyBag
  /\ response = Response("none", NoId, FALSE)
  /\ backgroundInterval = NoId
  /\ timers = {}

\* initBackgroundProcessing, with startBackgroundProcessing: setInterval
\* returns a new timer, and processTaskQueue is queued with setImmediate
InitBackgroundProcessing ==
  /\ Call
  /\ IF backgroundInterval # NoId
       THEN UNCHANGED <<backgroundInterval, timers, immediates>>
       ELSE /\ backgroundInterval' = calls + 1
            /\ timers' = timers \cup {calls + 1}
            /\ immediates' = Append(immediates, NoId)
  /\ response' = Response("init", NoId, FALSE)
  /\ UNCHANGED <<video, now, nodeEnv, alive, runs>>

\* stopBackground, with stopBackgroundProcessing: clearInterval
StopBackground ==
  /\ Call
  /\ IF backgroundInterval # NoId
       THEN /\ timers' = timers \ {backgroundInterval}
            /\ backgroundInterval' = NoId
       ELSE UNCHANGED <<backgroundInterval, timers>>
  /\ response' = Response("stop", NoId, FALSE)
  /\ UNCHANGED <<video, now, nodeEnv, alive, immediates, runs>>

\* handleShutdown on SIGINT or SIGTERM: stopBackground, then process.exit
HandleShutdown ==
  /\ alive
  /\ alive' = FALSE
  /\ backgroundInterval' = NoId
  /\ timers' = {}
  /\ immediates' = << >>
  /\ UNCHANGED <<video, now, calls, nodeEnv, runs, response>>

\* an active interval timer fires: processTaskQueue
IntervalFires == timers # {} /\ Tick

\* the check phase runs the processTaskQueue queued at the start
ImmediateTick ==
  /\ alive
  /\ immediates # << >> /\ Head(immediates) = NoId
  /\ now < MaxTicks
  /\ now' = now + 1
  /\ immediates' = Tail(immediates)
  /\ UNCHANGED <<video, calls, nodeEnv, alive, runs, response,
                 backgroundInterval, timers>>

\* getBackgroundStatus
getBackgroundStatus(interval) ==
  [running |-> interval # NoId, intervalId |-> interval]

NextBackground ==
  \/ InitBackgroundProcessing
  \/ StopBackground
  \/ HandleShutdown
  \/ IntervalFires
  \/ ImmediateTick

SpecBackground == InitBackground /\ [][NextBackground]_vars

\* C39: over any sequence of initBackgroundProcessing and stopBackground
\* calls at most one interval timer is active, an initialisation while one
\* is running starts nothing, getBackgroundStatus reports running exactly
\* when a timer is active, and a tick starts only while the scheduler is
\* initialised and not stopped.
C39_OneTimer ==
  [][/\ Cardinality(timers') <= 1
     /\ (Called("init", NoId) /\ backgroundInterval # NoId) =>
          (timers' = timers /\ immediates' = immediates)
     /\ getBackgroundStatus(backgroundInterval').running <=> timers' # {}
     /\ now' # now => backgroundInterval # NoId]_vars

(***************************************************************************)
(* The scheduler left to itself, for as long as one likes: two jobs have   *)
(* been saved and enqueued, the timer keeps firing (the tick is not        *)
(* counted), and no further call of the route layer is made.               *)
(***************************************************************************)
InitLive ==
  /\ \E a, b \in Drafts :
       video = update(update(insert(insert(<< >>, a, 0), b, 0),
                             [id |-> 1, status |-> "waiting"]),
                      [id |-> 2, status |-> "waiting"])
  /\ now = 0
  /\ calls = 0
  /\ nodeEnv \in {"production", "development"}
  /\ alive = TRUE
  /\ immediates = << >>
  /\ runs = EmptyBag
  /\ response = Response("none", NoId, FALSE)
  /\ backgroundInterval = 1
  /\ timers = {1}

\* processTaskQueue fired by the interval, as in Tick
TickLive ==
  /\ alive
  /\ immediates = << >>
  /\ IF findFirstByStatus(video, "pending") = NoId
       THEN /\ InFlight + 2 <= MaxRuns
            /\ immediates' = NextWaiting(video) \o NextWaiting(video)
            /\ UNCHANGED runs
       ELSE /\ InFlight < MaxRuns
            /\ LET id == findFirstByStatus(video, "pending")
               IN  runs' = runs (+) Await(Run("tick", "status", id, NULL,
                                              video[id].code, NULL, 0, NULL))
            /\ UNCHANGED immediates
  /\ UNCHANGED <<video, now, calls, nodeEnv, alive, response,
                 backgroundInterval, timers>>

NextLive ==
  \/ TickLive
  \/ CheckPhase
  \/ \E r \in BagToSet(runs) : TtsReturn(r)
  \/ \E r \in BagToSet(runs) : SubmitReturn(r)
  \/ \E r \in BagToSet(runs) : StatusReturn(r)
  \/ \E r \in BagToSet(runs) : ProbeReturn(r)
  \/ Restart

\* the calls that can be awaited
LiveRuns ==
  UNION {{TtsRun(i)}
           \cup {Run("synthesize", "submit", i, audio, uuid, NULL, 0, NULL) :
                   audio \in {"tts.wav", "upload.wav"}, uuid \in UUIDs}
           \cup {Run("tick", "status", i, NULL, uuid, NULL, 0, NULL) :
                   uuid \in UUIDs}
           \cup {Run("tick", "probe", i, NULL, uuid, resp.msg, resp.progress,
                      resp.result) :
                   uuid \in UUIDs, resp \in {x \in StatusResponses : Succeeded(x)}} :
         i \in 1..MaxVideos}

\* the render service reports the end of the task polled by r
Decided(r) ==
  /\ alive
  /\ BagIn(r, runs)
  /\ \E resp \in StatusResponses :
       (Terminal(resp) \/ Succeeded(resp)) /\ StatusAnswered(r, resp)
  /\ UNCHANGED <<backgroundInterval, timers>>

\* the timer keeps firing and the event loop keeps running its callbacks; a
\* process that ended is started again; every awaited call returns; a task
\* that is polled again and again is reported finished or failed at last
FairLive ==
  /\ WF_vars(TickLive)
  /\ WF_vars(CheckPhase)
  /\ WF_vars(Restart)
  /\ \A r \in LiveRuns : WF_vars(Return(r))
  /\ \A r \in LiveRuns : SF_vars(Decided(r))

SpecLive == InitLive /\ [][NextLive]_vars /\ FairLive

\* C37: with the scheduler ticking, every call returning and every remote
\* task ending, every waiting job is in the end completed or failed.
C37_EveryJobFinishes ==
  \A i \in 1..MaxVideos :
    (i \in DOMAIN video /\ video[i].status = "waiting")
      ~> (i \in DOMAIN video /\ video[i].status \in {"completed", "failed"})

====
